---- MODULE Spec2Model ----
(***************************************************************************)
(* Profit simulation of src/src/modules/simulation.py: simulate_profit     *)
(* (scalar mode) and simulate_profit_series (trajectory mode), run one     *)
(* after the other on the same true/predicted sequences and initial        *)
(* balance.                                                                *)
(*                                                                         *)
(* Numbers.  A float is modelled as an exact fraction <<n, d>> in lowest   *)
(* terms with d > 0.  The IEEE specials keep d = 0: NaN is <<0, 0>>,       *)
(* +inf is <<1, 0>> and -inf is <<-1, 0>>.  Arithmetic is exact: binary    *)
(* rounding error of the float operations is not modelled.                 *)
(***************************************************************************)
EXTENDS Integers, Sequences, FiniteSets, TLC

VARIABLES
    y_true,           \* argument y_true, the same for every call
    y_pred,           \* argument y_pred
    initial_balance,  \* argument initial_balance
    pc,               \* "idle" | "profit" | "between" | "series" | "done"
    i,                \* loop index of the active call
    balance,          \* local `balance` of simulate_profit
    prev_balance,     \* `balance` of the active call before its last iteration
    profit_outcomes,  \* branch taken by each iteration of simulate_profit
    sbalance,         \* local `balance` of simulate_profit_series
    balances,         \* local `balances` of simulate_profit_series
    series_outcomes,  \* branch taken by each iteration of simulate_profit_series
    profit_results,   \* values returned by simulate_profit, one per call
    series_results,   \* lists returned by simulate_profit_series, one per call
    logged,           \* warnings written to the module-level logger
    hold_result,      \* <<>> or <<array returned by simulate_hold_strategy>>
    df,               \* argument df of prepare_features: rows <<close, volume>>
    window,           \* argument window of prepare_features
    fpc,              \* "idle" | "lags" | "extract" | "returned"
    work,             \* the local copy of df, with its lag columns
    lag_i,            \* loop variable i of prepare_features
    feat_result,      \* <<>> or <<[X |-> ..., y |-> ...]>> returned by prepare_features
    n_samples,        \* number of rows of the X given to train_mlp_model
    n_splits,         \* argument k of train_mlp_model
    tpc,              \* "idle" | "folds" | "done"
    perm,             \* the shuffled sample indices KFold slices into folds
    fold,             \* number of folds trained so far
    candidates,       \* one record per fitted model: its fold, training and validation samples, mse
    best_model,       \* None or <<fold of the candidate>>
    best_score,       \* lowest mse so far
    mlp_result,       \* <<>> or <<value returned by train_mlp_model>>
    caught,           \* TRUE once the except clause of train_mlp_model has run
    args,             \* the parsed command line: [func, compare]
    dados_has_crypto, \* args.crypto is a key of load_all_cryptos()
    n_rows,           \* feature rows prepare_features(df, window=7) gives for the asset
    mpc,              \* the statement main.py is at
    rp,               \* locals of run_prediction: [model, used]
    rc,               \* locals of run_comparison
    stdout,           \* the diagnostics printed so far
    traceback,        \* "" or the exception that left main()
    ld,               \* locals of load_all_cryptos: [pc, coin, data, errors]
    data,             \* argument data of the mean-return tests: <<[coin, n_returns], ...>>
    hyp_args,         \* [test, threshold]: the function called and the threshold given to it
    ht,               \* locals of the mean-return test that runs
    eval_in,          \* arguments of evaluate_model: [model, X_test, y_test]
    ev,               \* evaluate_model: [pc, before, result]
    price_tables,     \* the per-asset tables the caller holds, in the order of the dict
    tcall,            \* the calls made on them: [n, last, private, original]
    first_pred        \* <<>> or <<the y_pred of the caller's first pair of calls>>

\* arguments, locals and results of simulate_profit and simulate_profit_series
sim_vars == <<y_true, y_pred, initial_balance, pc, i, balance, prev_balance,
              profit_outcomes, sbalance, balances, series_outcomes,
              profit_results, series_results, logged>>

hold_vars == <<hold_result>>

feat_vars == <<df, window, fpc, work, lag_i, feat_result>>

train_vars == <<n_samples, n_splits, tpc, perm, fold, candidates, best_model,
                best_score, mlp_result, caught>>

main_vars == <<args, dados_has_crypto, n_rows, mpc, rp, rc, stdout, traceback>>

load_vars == <<ld>>

hyp_vars == <<data, hyp_args, ht>>

\* the loader and the statistical tests
eval_vars == <<eval_in, ev>>

table_vars == <<price_tables, tcall>>

pair_vars == <<first_pred>>

late_vars == <<load_vars, hyp_vars, eval_vars, table_vars, pair_vars>>

\* everything the two profit simulations leave alone
nonsim_vars == <<hold_vars, feat_vars, train_vars, main_vars, late_vars>>

vars == <<sim_vars, nonsim_vars>>

----------------------------------------------------------------------------
(* Bounds of the model *)

\* longest true/predicted sequence
MaxLen == 3

\* calls of each function on the same arguments (SpecRerun)
MaxCalls == 2

\* most rows of a price table (SpecFeatures)
MaxRows == 4

\* largest window of prepare_features (SpecFeatures)
MaxWindow == 3

\* most samples given to train_mlp_model (SpecTrain)
MaxSamples == 4

\* largest k given to train_mlp_model (SpecTrain)
MaxK == 3

\* most feature rows of the asset given to run_comparison (SpecMain)
MaxFeatureRows == 36

\* most assets given to a mean-return test (SpecHyp)
MaxAssets == 2

\* most rows of the test set given to evaluate_model (SpecEval)
MaxTest == 3

\* most calls made on the price tables (SpecTables)
MaxTableCalls == 2

----------------------------------------------------------------------------
(* Float arithmetic *)

NaN == <<0, 0>>

Abs(n) == IF n < 0 THEN -n ELSE n

RECURSIVE GCD(_, _)
GCD(a, b) == IF b = 0 THEN a ELSE GCD(b, a % b)

\* the fraction n/d (d # 0) in lowest terms with a positive denominator
Frac(n, d) ==
    LET g == GCD(Abs(n), Abs(d))
        s == IF d < 0 THEN -1 ELSE 1
    IN  <<(s * n) \div g, (s * d) \div g>>

Num(n) == <<n, 1>>

isnan(x) == x = NaN
IsFinite(x) == x[2] # 0
Sgn(x) == IF x[1] > 0 THEN 1 ELSE IF x[1] < 0 THEN -1 ELSE 0

\* a > b; every comparison with NaN is false
Gt(a, b) ==
    /\ ~isnan(a)
    /\ ~isnan(b)
    /\ IF IsFinite(a) /\ IsFinite(b) THEN a[1] * b[2] > b[1] * a[2]
       ELSE IF ~IsFinite(a) /\ ~IsFinite(b) THEN a[1] > b[1]
       ELSE IF ~IsFinite(a) THEN a[1] > 0
       ELSE b[1] < 0

\* a <= b; every comparison with NaN is false
Le(a, b) == ~isnan(a) /\ ~isnan(b) /\ ~Gt(a, b)

Lt(a, b) == Gt(b, a)

Mul(a, b) ==
    IF isnan(a) \/ isnan(b) THEN NaN
    ELSE IF IsFinite(a) /\ IsFinite(b) THEN Frac(a[1] * b[1], a[2] * b[2])
    ELSE <<Sgn(a) * Sgn(b), 0>>

\* a / b as numpy computes it: x/0 is +-inf, 0/0 is nan, no exception
Div(a, b) ==
    IF isnan(a) \/ isnan(b) THEN NaN
    ELSE IF IsFinite(a) /\ IsFinite(b)
         THEN IF b[1] = 0 THEN <<Sgn(a), 0>> ELSE Frac(a[1] * b[2], a[2] * b[1])
    ELSE IF ~IsFinite(a) /\ ~IsFinite(b) THEN NaN
    ELSE IF ~IsFinite(a) THEN <<Sgn(a) * (IF b[1] < 0 THEN -1 ELSE 1), 0>>
    ELSE <<0, 1>>

\* a - b; inf - inf is nan
Sub(a, b) ==
    IF isnan(a) \/ isnan(b) THEN NaN
    ELSE IF IsFinite(a) /\ IsFinite(b) THEN Frac(a[1] * b[2] - b[1] * a[2], a[2] * b[2])
    ELSE IF ~IsFinite(a) /\ ~IsFinite(b) THEN (IF a[1] = b[1] THEN NaN ELSE a)
    ELSE IF ~IsFinite(a) THEN a
    ELSE <<-b[1], 0>>

\* a + b; inf + -inf is nan
Add(a, b) == Sub(a, Sub(<<0, 1>>, b))

\* a >= b; every comparison with NaN is false
Ge(a, b) == Le(b, a)

\* round(x, 2): nearest multiple of 1/100, ties to the even one
round2(x) ==
    IF ~IsFinite(x) THEN x
    ELSE LET p == x[1] * 100
             q == x[2]
             fl == p \div q
             rem == p - fl * q
             k == IF 2 * rem < q THEN fl
                  ELSE IF 2 * rem > q THEN fl + 1
                  ELSE IF fl % 2 = 0 THEN fl ELSE fl + 1
         IN  Frac(k, 100)

----------------------------------------------------------------------------
(* Program constants *)

min_price == Num(1)
max_change == Num(10)

----------------------------------------------------------------------------
(* Inputs *)

Prices == {NaN, Num(-2), Num(0), Num(1), Num(2), Num(3), Num(30)}
Predictions == {NaN, Num(3), Num(31)}
Balances == {Num(0), Num(1000), Frac(8001, 8)}

\* the inputs of the repeated calls
RerunPrices == {NaN, Num(2), Num(3), Num(30)}
RerunPredictions == {NaN, Num(3), Num(31)}
RerunBalances == {Frac(8001, 8)}

\* y_pred[0]: neither loop reads it (both read y_pred[i + 1] for i >= 0)
FirstPredictions == {NaN}

SeqsOfLen(S, n) == [1..n -> S]

\* the prediction sequences of length n over S
PredSeqsOfLen(S, n) == {s \in SeqsOfLen(S, n) : n >= 1 => s[1] \in FirstPredictions}

Last(s) == s[Len(s)]

----------------------------------------------------------------------------
(* The values an iteration reads.  k is the 0-based loop index of the      *)
(* code; TLA+ sequences are 1-based.                                       *)

today_real(k) == y_true[k + 1]
tomorrow_real(k) == y_true[k + 2]
tomorrow_predOfToday(k) == y_pred[k + 1]

tomorrow_pred(k) == y_pred[k + 2]

change(k) == Div(tomorrow_real(k), today_real(k))

----------------------------------------------------------------------------
(* simulate_profit *)

\* the branch iteration k of simulate_profit takes
ProfitOutcomeGe(k) ==
    IF isnan(today_real(k)) \/ isnan(tomorrow_real(k)) \/ isnan(tomorrow_pred(k))
    THEN "nan_skip"
    ELSE IF Le(today_real(k), min_price) \/ Le(tomorrow_real(k), min_price)
    THEN "floor_skip"
    ELSE IF ~Lt(tomorrow_pred(k), today_real(k))
    THEN IF Gt(change(k), max_change) THEN "reject" ELSE "trade"
    ELSE "hold"

ProfitOutcomeShort(k) ==
    IF isnan(today_real(k)) \/ isnan(tomorrow_real(k)) \/ isnan(tomorrow_pred(k))
    THEN "nan_skip"
    ELSE IF Le(today_real(k), min_price) \/ Le(tomorrow_real(k), min_price)
    THEN "floor_skip"
    ELSE IF Lt(tomorrow_pred(k), today_real(k))
    THEN IF Gt(change(k), max_change) THEN "reject" ELSE "trade"
    ELSE "hold"

ProfitOutcomeNoFloor(k) ==
    IF isnan(today_real(k)) \/ isnan(tomorrow_real(k)) \/ isnan(tomorrow_pred(k))
    THEN "nan_skip"
    ELSE IF Gt(tomorrow_pred(k), today_real(k))
    THEN IF Gt(change(k), max_change) THEN "reject" ELSE "trade"
    ELSE "hold"

ProfitOutcomeNoAnomaly(k) ==
    IF isnan(today_real(k)) \/ isnan(tomorrow_real(k)) \/ isnan(tomorrow_pred(k))
    THEN "nan_skip"
    ELSE IF Le(today_real(k), min_price) \/ Le(tomorrow_real(k), min_price)
    THEN "floor_skip"
    ELSE IF Gt(tomorrow_pred(k), today_real(k))
    THEN "trade"
    ELSE "hold"

ProfitOutcome(k) ==
    IF isnan(today_real(k)) \/ isnan(tomorrow_real(k)) \/ isnan(tomorrow_pred(k))
    THEN "nan_skip"
    ELSE IF Le(today_real(k), min_price) \/ Le(tomorrow_real(k), min_price)
    THEN "floor_skip"
    ELSE IF Gt(tomorrow_pred(k), today_real(k))
    THEN IF Gt(change(k), max_change) THEN "reject" ELSE "trade"
    ELSE "hold"

\* `balance` after iteration k of simulate_profit, from b before it
ProfitBalanceFee(b, k) ==
    IF ProfitOutcome(k) = "trade" THEN Mul(Mul(b, change(k)), Frac(99, 100)) ELSE b

ProfitBalanceInverse(b, k) ==
    IF ProfitOutcome(k) = "trade"
    THEN Mul(b, Div(today_real(k), tomorrow_real(k)))
    ELSE b

ProfitBalance(b, k) ==
    IF ProfitOutcome(k) = "trade" THEN Mul(b, change(k)) ELSE b

CallProfitKeepsBalance ==
    /\ pc = "idle"
    /\ pc' = "profit"
    /\ balance' = IF profit_results = <<>> THEN initial_balance ELSE balance
    /\ prev_balance' = balance'
    /\ profit_outcomes' = <<>>
    /\ i' = 0
    /\ UNCHANGED nonsim_vars
    /\ UNCHANGED <<y_true, y_pred, initial_balance, sbalance, balances,
                   series_outcomes, profit_results, series_results, logged>>

CallProfit ==
    /\ pc = "idle"
    /\ pc' = "profit"
    /\ balance' = initial_balance
    /\ prev_balance' = initial_balance
    /\ profit_outcomes' = <<>>
    /\ i' = 0
    /\ UNCHANGED nonsim_vars
    /\ UNCHANGED <<y_true, y_pred, initial_balance, sbalance, balances,
                   series_outcomes, profit_results, series_results, logged>>

ProfitStep ==
    /\ pc = "profit"
    /\ i < Len(y_true) - 1
    /\ profit_outcomes' = Append(profit_outcomes, ProfitOutcome(i))
    /\ prev_balance' = balance
    /\ balance' = ProfitBalance(balance, i)
    /\ logged' = IF ProfitOutcome(i) = "reject" THEN logged + 1 ELSE logged
    /\ i' = i + 1
    /\ UNCHANGED nonsim_vars
    /\ UNCHANGED <<y_true, y_pred, initial_balance, pc, sbalance, balances,
                   series_outcomes, profit_results, series_results>>

ProfitReturn ==
    /\ pc = "profit"
    /\ ~(i < Len(y_true) - 1)
    /\ profit_results' = Append(profit_results, round2(balance))
    /\ pc' = "between"
    /\ UNCHANGED nonsim_vars
    /\ UNCHANGED <<y_true, y_pred, initial_balance, i, balance, prev_balance,
                   profit_outcomes, sbalance, balances, series_outcomes,
                   series_results, logged>>

----------------------------------------------------------------------------
(* simulate_profit_series *)

\* the branch iteration k of simulate_profit_series takes
SeriesOutcomeNoAnomaly(k) ==
    IF isnan(today_real(k)) \/ isnan(tomorrow_real(k)) \/ isnan(tomorrow_pred(k))
    THEN "nan_skip"
    ELSE IF Le(today_real(k), min_price) \/ Le(tomorrow_real(k), min_price)
    THEN "floor_skip"
    ELSE IF Gt(tomorrow_pred(k), today_real(k))
    THEN "trade"
    ELSE "hold"

SeriesOutcomeStrictFloor(k) ==
    IF isnan(today_real(k)) \/ isnan(tomorrow_real(k)) \/ isnan(tomorrow_pred(k))
    THEN "nan_skip"
    ELSE IF Lt(today_real(k), min_price) \/ Lt(tomorrow_real(k), min_price)
    THEN "floor_skip"
    ELSE IF Gt(tomorrow_pred(k), today_real(k))
    THEN IF Gt(change(k), max_change) THEN "reject" ELSE "trade"
    ELSE "hold"

SeriesOutcome(k) ==
    IF isnan(today_real(k)) \/ isnan(tomorrow_real(k)) \/ isnan(tomorrow_pred(k))
    THEN "nan_skip"
    ELSE IF Le(today_real(k), min_price) \/ Le(tomorrow_real(k), min_price)
    THEN "floor_skip"
    ELSE IF Gt(tomorrow_pred(k), today_real(k))
    THEN IF Gt(change(k), max_change) THEN "reject" ELSE "trade"
    ELSE "hold"

\* `balance` after iteration k of simulate_profit_series, from b before it
SeriesBalance(b, k) ==
    IF SeriesOutcome(k) = "trade" THEN Mul(b, change(k)) ELSE b

CallSeries ==
    /\ pc = "between"
    /\ pc' = "series"
    /\ sbalance' = initial_balance
    /\ prev_balance' = initial_balance
    /\ balances' = <<initial_balance>>
    /\ series_outcomes' = <<>>
    /\ i' = 0
    /\ UNCHANGED nonsim_vars
    /\ UNCHANGED <<y_true, y_pred, initial_balance, balance, profit_outcomes,
                   profit_results, series_results, logged>>

SeriesStepLosesRejected ==
    /\ pc = "series"
    /\ i < Len(y_true) - 1
    /\ series_outcomes' = Append(series_outcomes, SeriesOutcome(i))
    /\ prev_balance' = sbalance
    /\ sbalance' = SeriesBalance(sbalance, i)
    /\ balances' = IF SeriesOutcome(i) = "reject" THEN balances
                   ELSE Append(balances, SeriesBalance(sbalance, i))
    /\ i' = i + 1
    /\ UNCHANGED nonsim_vars
    /\ UNCHANGED <<y_true, y_pred, initial_balance, pc, balance, profit_outcomes,
                   profit_results, series_results, logged>>

SeriesStep ==
    /\ pc = "series"
    /\ i < Len(y_true) - 1
    /\ series_outcomes' = Append(series_outcomes, SeriesOutcome(i))
    /\ prev_balance' = sbalance
    /\ sbalance' = SeriesBalance(sbalance, i)
    /\ balances' = Append(balances, SeriesBalance(sbalance, i))
    /\ i' = i + 1
    /\ UNCHANGED nonsim_vars
    /\ UNCHANGED <<y_true, y_pred, initial_balance, pc, balance, profit_outcomes,
                   profit_results, series_results, logged>>

SeriesReturn ==
    /\ pc = "series"
    /\ ~(i < Len(y_true) - 1)
    /\ series_results' = Append(series_results, balances)
    /\ pc' = "done"
    /\ UNCHANGED nonsim_vars
    /\ UNCHANGED <<y_true, y_pred, initial_balance, i, balance, prev_balance,
                   profit_outcomes, sbalance, balances, series_outcomes,
                   profit_results, logged>>

\* the caller runs both functions once more on the same arguments
CallAgain ==
    /\ pc = "done"
    /\ Len(series_results) < MaxCalls
    /\ pc' = "idle"
    /\ UNCHANGED nonsim_vars
    /\ UNCHANGED <<y_true, y_pred, initial_balance, i, balance, prev_balance,
                   profit_outcomes, sbalance, balances, series_outcomes,
                   profit_results, series_results, logged>>

----------------------------------------------------------------------------
(* Specifications *)

\* nothing has been called yet; the locals hold placeholders
NoCallYet ==
    /\ pc = "idle"
    /\ i = 0
    /\ balance = Num(0)
    /\ prev_balance = Num(0)
    /\ profit_outcomes = <<>>
    /\ sbalance = Num(0)
    /\ balances = <<>>
    /\ series_outcomes = <<>>
    /\ profit_results = <<>>
    /\ series_results = <<>>
    /\ logged = 0

\* simulate_hold_strategy has not been called
NoHoldYet == hold_result = <<>>

\* prepare_features has not been called
NoFeaturesYet ==
    /\ fpc = "idle"
    /\ work = <<>>
    /\ lag_i = 0
    /\ feat_result = <<>>

\* no table is loaded
NoTable == df = <<>> /\ window = 0

\* Python's None
None == <<>>

\* train_mlp_model has not been called
NoTrainYet ==
    /\ tpc = "idle"
    /\ perm = <<>>
    /\ fold = 0
    /\ candidates = <<>>
    /\ best_model = None
    /\ best_score = <<1, 0>>
    /\ mlp_result = <<>>
    /\ caught = FALSE

\* no training data
NoSamples == n_samples = 0 /\ n_splits = 0

\* a local that has not been assigned
Unset == <<"unset">>

\* locals of run_prediction and of run_comparison before the call
NoPrediction == [model |-> Unset, used |-> <<>>]

NoComparison ==
    [X_train |-> <<>>, X_test |-> <<>>, mlp |-> Unset, fitted |-> <<>>,
     attempted |-> <<>>, preds |-> <<>>, saldos |-> <<>>, printed |-> <<>>,
     comparacoes |-> <<>>, melhor |-> <<>>]

\* main() has not dispatched a command
NoCommandYet ==
    /\ mpc = "main"
    /\ rp = NoPrediction
    /\ rc = NoComparison
    /\ stdout = <<>>
    /\ traceback = ""

\* no command line
NoArgs ==
    /\ args = [func |-> "run_stats", compare |-> FALSE]
    /\ dados_has_crypto = FALSE
    /\ n_rows = 0

\* load_all_cryptos has not been called
NoLoadYet == ld = [pc |-> "idle", coin |-> 0, data |-> <<>>, errors |-> <<>>]

\* no mean-return test has been called
NoTestYet ==
    ht = [pc |-> "idle", coin |-> 0, threshold_percent |-> <<0, 0>>,
          reported |-> <<>>, results |-> <<>>, calls |-> <<>>]

\* no data for the mean-return tests
NoTestData == data = <<>> /\ hyp_args = [test |-> "daily", threshold |-> <<0, 1>>]

\* the loader and the statistical tests are at rest
\* evaluate_model has not been called
NoEvalYet == ev = [pc |-> "idle", before |-> <<>>, result |-> <<>>]

\* no model to evaluate
NoEvalData == eval_in = [model |-> <<>>, X_test |-> <<>>, y_test |-> <<>>]

\* no table is held and no function has been called on one
NoTables ==
    /\ price_tables = <<>>
    /\ tcall = [n |-> 0, last |-> "", private |-> <<>>, original |-> <<>>]

\* the caller has not called with a second prediction array
NoOtherPredictions == first_pred = <<>>

LateIdle ==
    /\ NoLoadYet
    /\ NoTestData
    /\ NoTestYet
    /\ NoEvalData
    /\ NoEvalYet
    /\ NoTables
    /\ NoOtherPredictions

\* the components other than the two profit simulations are at rest
OthersIdle ==
    /\ LateIdle
    /\ NoHoldYet
    /\ NoTable
    /\ NoFeaturesYet
    /\ NoSamples
    /\ NoTrainYet
    /\ NoArgs
    /\ NoCommandYet

Init ==
    /\ \E n \in 0..MaxLen :
          /\ y_true \in SeqsOfLen(Prices, n)
          /\ y_pred \in PredSeqsOfLen(Predictions, n)
    /\ initial_balance \in Balances
    /\ NoCallYet
    /\ OthersIdle

Next ==
    \/ CallProfit
    \/ ProfitStep
    \/ ProfitReturn
    \/ CallSeries
    \/ SeriesStep
    \/ SeriesReturn

Spec == Init /\ [][Next]_vars

InitRerun ==
    /\ \E n \in 0..MaxLen :
          /\ y_true \in SeqsOfLen(RerunPrices, n)
          /\ y_pred \in PredSeqsOfLen(RerunPredictions, n)
    /\ initial_balance \in RerunBalances
    /\ NoCallYet
    /\ OthersIdle

NextRerun ==
    \/ CallProfit
    \/ ProfitStep
    \/ ProfitReturn
    \/ CallSeries
    \/ SeriesStep
    \/ SeriesReturn
    \/ CallAgain

SpecRerun == InitRerun /\ [][NextRerun]_vars

----------------------------------------------------------------------------
(* simulate_hold_strategy *)

simulate_hold_strategyLastPrice(y, b) ==
    IF Len(y) < 2 THEN <<b>>
    ELSE LET preco_inicial == y[Len(y)]
             quantidade == Div(b, preco_inicial)
         IN  [k \in 1..Len(y) |-> Mul(quantidade, y[k])]

\* the array simulate_hold_strategy(y, b) returns
simulate_hold_strategy(y, b) ==
    IF Len(y) < 2 THEN <<b>>
    ELSE LET preco_inicial == y[1]
             quantidade == Div(b, preco_inicial)
         IN  [k \in 1..Len(y) |-> Mul(quantidade, y[k])]

CallHold ==
    /\ hold_result = <<>>
    /\ hold_result' = <<simulate_hold_strategy(y_true, initial_balance)>>
    /\ UNCHANGED <<sim_vars, feat_vars, train_vars, main_vars, late_vars>>

InitHold ==
    /\ LateIdle
    /\ \E n \in 0..MaxLen : y_true \in SeqsOfLen(Prices, n)
    /\ y_pred = <<>>
    /\ initial_balance \in Balances
    /\ NoCallYet
    /\ NoHoldYet
    /\ NoTable
    /\ NoFeaturesYet
    /\ NoSamples
    /\ NoTrainYet
    /\ NoArgs
    /\ NoCommandYet

NextHold == CallHold

SpecHold == InitHold /\ [][NextHold]_vars

----------------------------------------------------------------------------
(* prepare_features *)

\* cells of a loaded price table; an empty CSV cell loads as NaN
Closes == {NaN, Num(100), Num(102)}
Volumes == {NaN, Num(1000)}

\* the simulation is not running; its variables keep their initial values
SimAtRest ==
    /\ y_true = <<>>
    /\ y_pred = <<>>
    /\ initial_balance = Num(1000)
    /\ NoCallYet

\* Series.shift(n): the value n rows earlier, NaN where there is none
shiftForward(col, n) ==
    [r \in 1..Len(col) |-> IF r + n <= Len(col) THEN col[r + n] ELSE NaN]

shift(col, n) ==
    [r \in 1..Len(col) |-> IF r - n >= 1 THEN col[r - n] ELSE NaN]

\* a row dropna() drops: a NaN in any of its columns
HasMissingIgnoresLags(row) ==
    isnan(row.close) \/ isnan(row.volume)

HasMissing(row) ==
    \/ isnan(row.close)
    \/ isnan(row.volume)
    \/ \E m \in 1..Len(row.lags) : isnan(row.lags[m])

\* DataFrame.dropna()
dropna(rows) == SelectSeq(rows, LAMBDA row : ~HasMissing(row))

\* df = df.copy()
FeatCall ==
    /\ fpc = "idle"
    /\ work' = [r \in 1..Len(df) |->
                   [idx |-> r, close |-> df[r][1], volume |-> df[r][2], lags |-> <<>>]]
    /\ lag_i' = 1
    /\ fpc' = "lags"
    /\ UNCHANGED <<df, window, feat_result>>
    /\ UNCHANGED <<sim_vars, hold_vars, train_vars, main_vars, late_vars>>

\* df[f'lag_{i}'] = df['close'].shift(i)
FeatAddLag ==
    /\ fpc = "lags"
    /\ lag_i <= window
    /\ LET col == shift([r \in 1..Len(work) |-> work[r].close], lag_i)
       IN  work' = [r \in 1..Len(work) |->
                       [work[r] EXCEPT !.lags = Append(@, col[r])]]
    /\ lag_i' = lag_i + 1
    /\ UNCHANGED <<df, window, fpc, feat_result>>
    /\ UNCHANGED <<sim_vars, hold_vars, train_vars, main_vars, late_vars>>

\* df.dropna(inplace=True)
FeatDropna ==
    /\ fpc = "lags"
    /\ lag_i > window
    /\ work' = dropna(work)
    /\ fpc' = "extract"
    /\ UNCHANGED <<df, window, lag_i, feat_result>>
    /\ UNCHANGED <<sim_vars, hold_vars, train_vars, main_vars, late_vars>>

\* X = df[[lag_1 .. lag_window]].values; y = df['close'].values; return X, y
FeatReturn ==
    /\ fpc = "extract"
    /\ feat_result' = <<[X |-> [j \in 1..Len(work) |-> work[j].lags],
                         y |-> [j \in 1..Len(work) |-> work[j].close]]>>
    /\ fpc' = "returned"
    /\ UNCHANGED <<df, window, work, lag_i>>
    /\ UNCHANGED <<sim_vars, hold_vars, train_vars, main_vars, late_vars>>

InitFeatures ==
    /\ LateIdle
    /\ \E n \in 0..MaxRows : df \in SeqsOfLen(Closes \X Volumes, n)
    /\ window \in 1..MaxWindow
    /\ NoFeaturesYet
    /\ NoHoldYet
    /\ SimAtRest
    /\ NoSamples
    /\ NoTrainYet
    /\ NoArgs
    /\ NoCommandYet

NextFeatures ==
    \/ FeatCall
    \/ FeatAddLag
    \/ FeatDropna
    \/ FeatReturn

SpecFeatures == InitFeatures /\ [][NextFeatures]_vars

----------------------------------------------------------------------------
(* train_mlp_model *)

\* validation errors mean_squared_error can return: finite and not negative
Scores == {Num(0), Num(1), Num(2)}

\* the orders KFold(shuffle=True, random_state=42) can shuffle n samples into
Shuffles(n) == {p \in [1..n -> 1..n] : \A a, b \in 1..n : p[a] = p[b] => a = b}

\* KFold(n_splits=k): ValueError unless k >= 2;
\* kf.split(X): ValueError when k is greater than the number of samples
KFoldRejectsOnlySmallK(n, k) == k < 2

KFoldRejects(n, k) == k < 2 \/ k > n

\* size of fold f: the first n % k folds have one sample more
fold_size(n, k, f) == (n \div k) + (IF f <= n % k THEN 1 ELSE 0)

RECURSIVE fold_start(_, _, _)
\* number of shuffled samples before fold f
fold_start(n, k, f) ==
    IF f <= 1 THEN 0 ELSE fold_start(n, k, f - 1) + fold_size(n, k, f - 1)

\* val_idx of fold f: a consecutive slice of the shuffled samples
val_idx(f) ==
    {perm[j] : j \in (fold_start(n_samples, n_splits, f) + 1) ..
                     (fold_start(n_samples, n_splits, f) + fold_size(n_samples, n_splits, f))}

\* train_idx of fold f: every other sample
train_idx(f) == (1..n_samples) \ val_idx(f)

\* if mse < best_score
improvesAlways(mse, best) == TRUE

improves(mse, best) == Lt(mse, best)

\* except Exception: ... return None
except_returnBest(best) == best

except_return(best) == None

\* best_model = None; best_score = inf; kf = KFold(...), which may raise
TrainCall ==
    /\ tpc = "idle"
    /\ best_model' = None
    /\ best_score' = <<1, 0>>
    /\ IF KFoldRejects(n_samples, n_splits)
       THEN /\ caught' = TRUE
            /\ mlp_result' = <<except_return(None)>>
            /\ tpc' = "done"
            /\ perm' = perm
       ELSE /\ perm' \in Shuffles(n_samples)
            /\ tpc' = "folds"
            /\ UNCHANGED <<caught, mlp_result>>
    /\ UNCHANGED <<n_samples, n_splits, fold, candidates>>
    /\ UNCHANGED <<sim_vars, hold_vars, feat_vars, main_vars, late_vars>>

\* one iteration of the loop: fit on train_idx, score on val_idx, keep the best
TrainFold ==
    /\ tpc = "folds"
    /\ fold < n_splits
    /\ \E mse \in Scores :
          /\ candidates' = Append(candidates,
                                  [fold |-> fold + 1,
                                   trained_on |-> train_idx(fold + 1),
                                   scored_on |-> val_idx(fold + 1),
                                   mse |-> mse])
          /\ IF improves(mse, best_score)
             THEN best_score' = mse /\ best_model' = <<fold + 1>>
             ELSE UNCHANGED <<best_score, best_model>>
    /\ fold' = fold + 1
    /\ UNCHANGED <<n_samples, n_splits, tpc, perm, mlp_result, caught>>
    /\ UNCHANGED <<sim_vars, hold_vars, feat_vars, main_vars, late_vars>>

\* model.fit, predict or mean_squared_error raises in this fold
TrainFoldRaises ==
    /\ tpc = "folds"
    /\ fold < n_splits
    /\ caught' = TRUE
    /\ mlp_result' = <<except_return(best_model)>>
    /\ tpc' = "done"
    /\ UNCHANGED <<n_samples, n_splits, perm, fold, candidates, best_model, best_score>>
    /\ UNCHANGED <<sim_vars, hold_vars, feat_vars, main_vars, late_vars>>

\* return best_model
TrainReturn ==
    /\ tpc = "folds"
    /\ fold = n_splits
    /\ mlp_result' = <<best_model>>
    /\ tpc' = "done"
    /\ UNCHANGED <<n_samples, n_splits, perm, fold, candidates, best_model, best_score, caught>>
    /\ UNCHANGED <<sim_vars, hold_vars, feat_vars, main_vars, late_vars>>

InitTrain ==
    /\ LateIdle
    /\ n_samples \in 0..MaxSamples
    /\ n_splits \in 0..MaxK
    /\ NoTrainYet
    /\ NoTable
    /\ NoFeaturesYet
    /\ NoHoldYet
    /\ SimAtRest
    /\ NoArgs
    /\ NoCommandYet

NextTrain ==
    \/ TrainCall
    \/ TrainFold
    \/ TrainFoldRaises
    \/ TrainReturn

SpecTrain == InitTrain /\ [][NextTrain]_vars

----------------------------------------------------------------------------
(* main.py: the four commands; predict.py: run_prediction, run_comparison *)

\* X[-30:] and X[:-30] in run_comparison
TailSize == 30

\* k=5 in run_comparison
ComparisonK == 5

\* degrees=list(range(2, 11)) of train_polynomial_models
degrees == <<2, 3, 4, 5, 6, 7, 8, 9, 10>>

\* validation errors of the compared models
ComparisonScores == {Num(1), Num(2)}

MLPRegressor == <<"MLPRegressor">>

Funcs == {"run_stats", "run_predict", "run_anova", "run_hypothesis"}

\* the keys of preds, in insertion order
ModelNames ==
    <<"MLP", "Linear">> \o [d \in 1..Len(degrees) |-> "Poly_" \o ToString(degrees[d])]

\* a[:-t] and a[-t:] of the rows 1..n
AllButLast(n, t) == [j \in 1..(IF n > t THEN n - t ELSE 0) |-> j]
LastRows(n, t) ==
    [j \in 1..(IF n > t THEN t ELSE n) |-> (IF n > t THEN n - t ELSE 0) + j]

RECURSIVE InsertByMse(_, _)
\* c placed after every entry whose mse is not greater
InsertByMse(sorted, c) ==
    IF sorted = <<>> THEN <<c>>
    ELSE IF Lt(c[2], sorted[1][2]) THEN <<c>> \o sorted
    ELSE <<sorted[1]>> \o InsertByMse(Tail(sorted), c)

RECURSIVE SortByMse(_)
\* list.sort(key=lambda x: x[1]): ascending, stable
SortByMse(cs) ==
    IF cs = <<>> THEN <<>>
    ELSE InsertByMse(SortByMse(SubSeq(cs, 1, Len(cs) - 1)), cs[Len(cs)])

\* where run_predict goes on after run_prediction has returned
AfterPredictionOnlyWithModel ==
    IF args.compare /\ rp.model = MLPRegressor THEN "rc_load" ELSE "exit"

AfterPrediction == IF args.compare THEN "rc_load" ELSE "exit"

RpStages == {"rp_load", "rp_train", "rp_evaluate"}

RcStages == {"rc_load", "rc_split", "rc_train_mlp", "rc_train_baselines",
             "rc_predict", "rc_simulate", "rc_metrics"}

\* args.func(args)
MainDispatch ==
    /\ mpc = "main"
    /\ mpc' = IF args.func = "run_predict" THEN "rp_load" ELSE args.func
    /\ UNCHANGED <<args, dados_has_crypto, n_rows, rp, rc, stdout, traceback>>
    /\ UNCHANGED <<sim_vars, hold_vars, feat_vars, train_vars, late_vars>>

\* stats.run_descriptive_analysis: the whole body is inside try/except
RunStats ==
    /\ mpc = "run_stats"
    /\ \E raises \in BOOLEAN :
          stdout' = IF raises THEN Append(stdout, "Erro durante a analise descritiva")
                    ELSE stdout
    /\ mpc' = "exit"
    /\ UNCHANGED <<args, dados_has_crypto, n_rows, rp, rc, traceback>>
    /\ UNCHANGED <<sim_vars, hold_vars, feat_vars, train_vars, late_vars>>

\* anova.run_analysis: no try/except here or in run_anova or in main
RunAnova ==
    /\ mpc = "run_anova"
    /\ \E raises \in BOOLEAN :
          IF raises THEN traceback' = "Exception" /\ mpc' = "crashed"
          ELSE traceback' = traceback /\ mpc' = "exit"
    /\ UNCHANGED <<args, dados_has_crypto, n_rows, rp, rc, stdout>>
    /\ UNCHANGED <<sim_vars, hold_vars, feat_vars, train_vars, late_vars>>

\* hypothesis.run_test: no try/except here or in run_hypothesis or in main
RunHypothesis ==
    /\ mpc = "run_hypothesis"
    /\ \E raises \in BOOLEAN :
          IF raises THEN traceback' = "Exception" /\ mpc' = "crashed"
          ELSE traceback' = traceback /\ mpc' = "exit"
    /\ UNCHANGED <<args, dados_has_crypto, n_rows, rp, rc, stdout>>
    /\ UNCHANGED <<sim_vars, hold_vars, feat_vars, train_vars, late_vars>>

\* run_prediction: load the data, return when the asset is not among them
RpLoad ==
    /\ mpc = "rp_load"
    /\ IF dados_has_crypto
       THEN mpc' = "rp_train" /\ stdout' = stdout
       ELSE /\ stdout' = Append(stdout, "Erro: Criptomoeda nao disponivel.")
            /\ mpc' = AfterPrediction
    /\ UNCHANGED <<args, dados_has_crypto, n_rows, rp, rc, traceback>>
    /\ UNCHANGED <<sim_vars, hold_vars, feat_vars, train_vars, late_vars>>

\* run_prediction: model = train_mlp_model(...); if model is None: return
RpTrain ==
    /\ mpc = "rp_train"
    /\ \E model \in {None, MLPRegressor} :
          /\ rp' = [rp EXCEPT !.model = model]
          /\ IF model = None
             THEN /\ stdout' = Append(stdout, "Erro durante o treinamento do modelo.")
                  /\ mpc' = AfterPrediction
             ELSE mpc' = "rp_evaluate" /\ stdout' = stdout
    /\ UNCHANGED <<args, dados_has_crypto, n_rows, rc, traceback>>
    /\ UNCHANGED <<sim_vars, hold_vars, feat_vars, train_vars, late_vars>>

\* run_prediction: evaluate, predict, simulate with the model
RpEvaluate ==
    /\ mpc = "rp_evaluate"
    /\ rp' = [rp EXCEPT !.used = <<"evaluate_model", "predict", "simulate_profit">>]
    /\ mpc' = AfterPrediction
    /\ UNCHANGED <<args, dados_has_crypto, n_rows, rc, stdout, traceback>>
    /\ UNCHANGED <<sim_vars, hold_vars, feat_vars, train_vars, late_vars>>

\* run_prediction: an exception in any statement reaches its except clause
RpRaises ==
    /\ mpc \in RpStages
    /\ stdout' = Append(stdout, "Erro durante a execucao")
    /\ mpc' = AfterPrediction
    /\ UNCHANGED <<args, dados_has_crypto, n_rows, rp, rc, traceback>>
    /\ UNCHANGED <<sim_vars, hold_vars, feat_vars, train_vars, late_vars>>

\* run_comparison: dados = load_all_cryptos(); df = dados[crypto]
RcLoad ==
    /\ mpc = "rc_load"
    /\ IF dados_has_crypto
       THEN mpc' = "rc_split" /\ traceback' = traceback
       ELSE mpc' = "crashed" /\ traceback' = "KeyError"
    /\ UNCHANGED <<args, dados_has_crypto, n_rows, rp, rc, stdout>>
    /\ UNCHANGED <<sim_vars, hold_vars, feat_vars, train_vars, late_vars>>

\* run_comparison: X_train, X_test = X[:-30], X[-30:]
RcSplit ==
    /\ mpc = "rc_split"
    /\ rc' = [rc EXCEPT !.X_train = AllButLast(n_rows, TailSize),
                        !.X_test = LastRows(n_rows, TailSize)]
    /\ mpc' = "rc_train_mlp"
    /\ UNCHANGED <<args, dados_has_crypto, n_rows, rp, stdout, traceback>>
    /\ UNCHANGED <<sim_vars, hold_vars, feat_vars, train_vars, late_vars>>

\* run_comparison: mlp = train_mlp_model(X_train, y_train, k=5)
RcTrainMlp ==
    /\ mpc = "rc_train_mlp"
    /\ \E model \in {None, MLPRegressor} :
          /\ KFoldRejects(Len(rc.X_train), ComparisonK) => model = None
          /\ rc' = [rc EXCEPT !.mlp = model,
                              !.fitted = IF model = None THEN @
                                         ELSE Append(@, [nome |-> "MLP",
                                                         trained_on |-> rc.X_train])]
    /\ mpc' = "rc_train_baselines"
    /\ UNCHANGED <<args, dados_has_crypto, n_rows, rp, stdout, traceback>>
    /\ UNCHANGED <<sim_vars, hold_vars, feat_vars, train_vars, late_vars>>

\* run_comparison: train_linear_model, train_polynomial_models;
\* LinearRegression.fit raises ValueError on zero samples
RcTrainBaselines ==
    /\ mpc = "rc_train_baselines"
    /\ IF rc.X_train = <<>>
       THEN mpc' = "crashed" /\ traceback' = "ValueError" /\ rc' = rc
       ELSE /\ rc' = [rc EXCEPT !.fitted =
                         @ \o [m \in 1..(Len(ModelNames) - 1) |->
                                  [nome |-> ModelNames[m + 1], trained_on |-> rc.X_train]]]
            /\ mpc' = "rc_predict"
            /\ traceback' = traceback
    /\ UNCHANGED <<args, dados_has_crypto, n_rows, rp, stdout>>
    /\ UNCHANGED <<sim_vars, hold_vars, feat_vars, train_vars, late_vars>>

\* run_comparison: preds = {"MLP": mlp.predict(X_test), ...}
RcPredict ==
    /\ mpc = "rc_predict"
    /\ IF rc.mlp = None
       THEN /\ rc' = [rc EXCEPT !.attempted = Append(@, "predict")]
            /\ mpc' = "crashed"
            /\ traceback' = "AttributeError"
       ELSE /\ rc' = [rc EXCEPT !.attempted = Append(@, "predict"),
                                !.preds = [m \in 1..Len(ModelNames) |->
                                              [nome |-> ModelNames[m], on |-> rc.X_test]]]
            /\ mpc' = "rc_simulate"
            /\ traceback' = traceback
    /\ UNCHANGED <<args, dados_has_crypto, n_rows, rp, stdout>>
    /\ UNCHANGED <<sim_vars, hold_vars, feat_vars, train_vars, late_vars>>

\* run_comparison: saldos = {nome: simulate_profit_series(y_test, y_pred, 1000.0) ...}
RcSimulate ==
    /\ mpc = "rc_simulate"
    /\ rc' = [rc EXCEPT !.saldos = [m \in 1..Len(rc.preds) |->
                                       [nome |-> rc.preds[m].nome,
                                        y_true |-> rc.X_test,
                                        y_pred |-> rc.preds[m].on]]]
    /\ mpc' = "rc_metrics"
    /\ UNCHANGED <<args, dados_has_crypto, n_rows, rp, stdout, traceback>>
    /\ UNCHANGED <<sim_vars, hold_vars, feat_vars, train_vars, late_vars>>

\* run_comparison: one iteration of the metrics loop: print the record, append it
RcMetrics ==
    /\ mpc = "rc_metrics"
    /\ Len(rc.comparacoes) < Len(rc.preds)
    /\ \E mse \in ComparisonScores :
          LET nome == rc.preds[Len(rc.comparacoes) + 1].nome
          IN  rc' = [rc EXCEPT !.printed = Append(@, <<nome, mse>>),
                               !.comparacoes = Append(@, <<nome, mse>>)]
    /\ UNCHANGED <<args, dados_has_crypto, n_rows, mpc, rp, stdout, traceback>>
    /\ UNCHANGED <<sim_vars, hold_vars, feat_vars, train_vars, late_vars>>

\* run_comparison: comparacoes.sort(...); melhor = first entry that is not the MLP
RcFinal ==
    /\ mpc = "rc_metrics"
    /\ Len(rc.comparacoes) = Len(rc.preds)
    /\ LET sorted == SortByMse(rc.comparacoes)
       IN  rc' = [rc EXCEPT !.comparacoes = sorted,
                            !.melhor = SelectSeq(sorted, LAMBDA c : c[1] # "MLP")[1]]
    /\ mpc' = "exit"
    /\ UNCHANGED <<args, dados_has_crypto, n_rows, rp, stdout, traceback>>
    /\ UNCHANGED <<sim_vars, hold_vars, feat_vars, train_vars, late_vars>>

\* run_comparison: an exception in any statement leaves run_comparison,
\* run_predict and main
RcRaises ==
    /\ mpc \in RcStages
    /\ traceback' = "Exception"
    /\ mpc' = "crashed"
    /\ UNCHANGED <<args, dados_has_crypto, n_rows, rp, rc, stdout>>
    /\ UNCHANGED <<sim_vars, hold_vars, feat_vars, train_vars, late_vars>>

InitMain ==
    /\ LateIdle
    /\ args \in [func : Funcs, compare : BOOLEAN]
    /\ args.compare => args.func = "run_predict"
    /\ dados_has_crypto \in BOOLEAN
    /\ n_rows \in 0..MaxFeatureRows
    /\ ~dados_has_crypto => n_rows = 0
    /\ NoCommandYet
    /\ NoSamples
    /\ NoTrainYet
    /\ NoTable
    /\ NoFeaturesYet
    /\ NoHoldYet
    /\ SimAtRest

NextMain ==
    \/ MainDispatch
    \/ RunStats
    \/ RunAnova
    \/ RunHypothesis
    \/ RpLoad
    \/ RpTrain
    \/ RpEvaluate
    \/ RpRaises
    \/ RcLoad
    \/ RcSplit
    \/ RcTrainMlp
    \/ RcTrainBaselines
    \/ RcPredict
    \/ RcSimulate
    \/ RcMetrics
    \/ RcFinal
    \/ RcRaises

SpecMain == InitMain /\ [][NextMain]_vars

----------------------------------------------------------------------------
(* load_all_cryptos *)

\* the whitelist
cryptos == <<"ADA", "AVAX", "BNB", "BTC", "DOGE", "DOT", "ETH", "SHIB", "SOL", "XRP">>

\* what reading one CSV can do: parse, FileNotFoundError, a parser or KeyError
FileStates == {"ok", "missing", "unparsable"}

\* everything outside the loader and the statistical tests is at rest
EarlyIdle ==
    /\ SimAtRest
    /\ NoOtherPredictions
    /\ NoHoldYet
    /\ NoTable
    /\ NoFeaturesYet
    /\ NoSamples
    /\ NoTrainYet
    /\ NoArgs
    /\ NoCommandYet

\* except Exception as e: logger.error(...); the loop goes on
on_load_errorRaises(l, f) == [l EXCEPT !.pc = "raised"]

on_load_error(l, f) ==
    [l EXCEPT !.errors = Append(@, <<cryptos[l.coin], f>>), !.coin = @ + 1]

\* cryptos = [...]; data = {}
LoadCall ==
    /\ ld.pc = "idle"
    /\ ld' = [pc |-> "loading", coin |-> 1, data |-> <<>>, errors |-> <<>>]
    /\ UNCHANGED <<sim_vars, hold_vars, feat_vars, train_vars, main_vars, hyp_vars, eval_vars, table_vars, pair_vars>>

\* one iteration of the loop over the whitelist
LoadCoin ==
    /\ ld.pc = "loading"
    /\ ld.coin <= Len(cryptos)
    /\ \E f \in FileStates :
          ld' = IF f = "ok"
                THEN [ld EXCEPT !.data = Append(@, cryptos[ld.coin]), !.coin = @ + 1]
                ELSE on_load_error(ld, f)
    /\ UNCHANGED <<sim_vars, hold_vars, feat_vars, train_vars, main_vars, hyp_vars, eval_vars, table_vars, pair_vars>>

\* return data
LoadReturn ==
    /\ ld.pc = "loading"
    /\ ld.coin > Len(cryptos)
    /\ ld' = [ld EXCEPT !.pc = "returned"]
    /\ UNCHANGED <<sim_vars, hold_vars, feat_vars, train_vars, main_vars, hyp_vars, eval_vars, table_vars, pair_vars>>

InitLoad ==
    /\ NoLoadYet
    /\ NoTestData
    /\ NoTestYet
    /\ NoEvalData
    /\ NoEvalYet
    /\ NoTables
    /\ EarlyIdle

NextLoad ==
    \/ LoadCall
    \/ LoadCoin
    \/ LoadReturn

SpecLoad == InitLoad /\ [][NextLoad]_vars

----------------------------------------------------------------------------
(* perform_mean_return_test, perform_mean_return_monthly_test, run_test *)

\* alpha: float = 0.05
alpha == Frac(5, 100)

\* monthly_returns[-6:]
LastMonths == 6

\* stats.shapiro needs at least 3 observations; the monthly test asks first
MinObservations == 3

\* numbers of return observations an asset can have
ReturnCounts == {0, 2, 3, 7}

\* what the statistics library can return: the sample mean in percent, the
\* standard error, the Shapiro p-value, the left-tail p-value of a finite t
Means == {Num(-1), Num(25)}
StdErrors == {Num(0), Num(2)}
ShapiroPs == {NaN, Frac(1, 100), Frac(5, 100), Frac(1, 2)}
Thresholds == {Num(0), Frac(1, 5)}

\* stats.t.cdf(t, df): increasing in t, nan for nan
tcdf(t) ==
    IF isnan(t) THEN {NaN}
    ELSE IF ~IsFinite(t) THEN (IF t[1] < 0 THEN {Num(0)} ELSE {Num(1)})
    ELSE IF Lt(t, Num(0)) THEN {Frac(1, 100), Frac(5, 100)}
    ELSE {Frac(1, 2)}

\* (nan, nan, nan, False)
undefined_result == <<NaN, NaN, NaN, FALSE>>

\* if len(monthly_returns) < 3
insufficientBelowTwo(n) == n < MinObservations - 1

insufficient(n) == n < MinObservations

\* if shapiro_p >= alpha
is_normalUnlessBelow(shapiro_p) == ~Lt(shapiro_p, alpha)

is_normal(shapiro_p) == Ge(shapiro_p, alpha)

\* the t-test branch: t_stat, p_value, reject_H0 for a sample mean and a standard error
t_test(sample_mean, se, threshold_percent) ==
    LET t_stat == Div(Sub(sample_mean, threshold_percent), se)
    IN  {<<sample_mean, t_stat, p_value, Lt(p_value, alpha)>> : p_value \in tcdf(t_stat)}

\* the branch that skips the t-test
no_t_test(sample_mean) == <<sample_mean, NaN, NaN, FALSE>>

\* the library calls one iteration made: the normality test and the p-value it
\* returned, the t statistic, and whether the iteration ended in the except clause
NoCalls == [shapiro |-> FALSE, shapiro_p |-> NaN, t |-> FALSE, raised |-> FALSE]
ShapiroOnly(shapiro_p) == [NoCalls EXCEPT !.shapiro = TRUE, !.shapiro_p = shapiro_p]
ShapiroAndT(shapiro_p) == [ShapiroOnly(shapiro_p) EXCEPT !.t = TRUE]

\* results[coin] = ...; the loop goes on with the next coin
record_result(h, res, called) ==
    [h EXCEPT !.results = Append(@, [coin |-> data[h.coin].coin, res |-> res]),
              !.calls = Append(@, called),
              !.coin = @ + 1]

\* except Exception as e: print(...); results[coin] = (nan, nan, nan, False)
on_test_errorSkipsCoin(h, called) ==
    [h EXCEPT !.calls = Append(@, [called EXCEPT !.raised = TRUE]), !.coin = @ + 1]

on_test_error(h, called) ==
    record_result(h, undefined_result, [called EXCEPT !.raised = TRUE])

\* a direct call of one of the two tests: results = {}
HypCall ==
    /\ ht.pc = "idle"
    /\ hyp_args.test \in {"daily", "monthly"}
    /\ ht' = [ht EXCEPT !.pc = hyp_args.test, !.coin = 1,
                        !.threshold_percent = hyp_args.threshold]
    /\ UNCHANGED <<data, hyp_args>>
    /\ UNCHANGED <<sim_vars, hold_vars, feat_vars, train_vars, main_vars, load_vars, eval_vars, table_vars, pair_vars>>

\* hypothesis.run_test: print the threshold as expected_return * 100 percent,
\* call the monthly test with threshold_percent=expected_return
RunTest ==
    /\ ht.pc = "idle"
    /\ hyp_args.test = "run_test"
    /\ ht' = [ht EXCEPT !.pc = "monthly", !.coin = 1,
                        !.reported = <<Mul(hyp_args.threshold, Num(100))>>,
                        !.threshold_percent = hyp_args.threshold]
    /\ UNCHANGED <<data, hyp_args>>
    /\ UNCHANGED <<sim_vars, hold_vars, feat_vars, train_vars, main_vars, load_vars, eval_vars, table_vars, pair_vars>>

\* perform_mean_return_test: one iteration of the loop over the assets
DailyAsset ==
    /\ ht.pc = "daily"
    /\ ht.coin <= Len(data)
    /\ LET n == data[ht.coin].n_returns
       IN  \/ ht' = on_test_error(ht, NoCalls)
           \/ /\ n < MinObservations
              /\ ht' = on_test_error(ht, ShapiroOnly(NaN))
           \/ /\ n >= MinObservations
              /\ \E sample_mean \in Means, shapiro_p \in ShapiroPs :
                    IF is_normal(shapiro_p)
                    THEN \E se \in StdErrors :
                            \E res \in t_test(sample_mean, se, ht.threshold_percent) :
                               ht' = record_result(ht, res, ShapiroAndT(shapiro_p))
                    ELSE ht' = record_result(ht, no_t_test(sample_mean),
                                             ShapiroOnly(shapiro_p))
    /\ UNCHANGED <<data, hyp_args>>
    /\ UNCHANGED <<sim_vars, hold_vars, feat_vars, train_vars, main_vars, load_vars, eval_vars, table_vars, pair_vars>>

\* perform_mean_return_monthly_test: one iteration of the loop over the assets
MonthlyAsset ==
    /\ ht.pc = "monthly"
    /\ ht.coin <= Len(data)
    /\ LET raw == data[ht.coin].n_returns
           n == IF raw > LastMonths THEN LastMonths ELSE raw
       IN  \/ ht' = on_test_error(ht, NoCalls)
           \/ /\ insufficient(n)
              /\ ht' = record_result(ht, undefined_result, NoCalls)
           \/ /\ ~insufficient(n)
              /\ n < MinObservations
              /\ ht' = on_test_error(ht, ShapiroOnly(NaN))
           \/ /\ ~insufficient(n)
              /\ n >= MinObservations
              /\ \E sample_mean \in Means, shapiro_p \in ShapiroPs :
                    IF is_normal(shapiro_p)
                    THEN \E se \in StdErrors :
                            \E res \in t_test(sample_mean, se, ht.threshold_percent) :
                               ht' = record_result(ht, res, ShapiroAndT(shapiro_p))
                    ELSE ht' = record_result(ht, no_t_test(sample_mean),
                                             ShapiroOnly(shapiro_p))
    /\ UNCHANGED <<data, hyp_args>>
    /\ UNCHANGED <<sim_vars, hold_vars, feat_vars, train_vars, main_vars, load_vars, eval_vars, table_vars, pair_vars>>

\* return results
HypReturn ==
    /\ ht.pc \in {"daily", "monthly"}
    /\ ht.coin > Len(data)
    /\ ht' = [ht EXCEPT !.pc = "returned"]
    /\ UNCHANGED <<data, hyp_args>>
    /\ UNCHANGED <<sim_vars, hold_vars, feat_vars, train_vars, main_vars, load_vars, eval_vars, table_vars, pair_vars>>

InitHyp ==
    /\ \E a \in 0..MaxAssets :
          \E counts \in [1..a -> ReturnCounts] :
             data = [c \in 1..a |-> [coin |-> cryptos[c], n_returns |-> counts[c]]]
    /\ hyp_args \in [test : {"daily", "monthly", "run_test"}, threshold : Thresholds]
    /\ NoTestYet
    /\ NoLoadYet
    /\ NoEvalData
    /\ NoEvalYet
    /\ NoTables
    /\ EarlyIdle

NextHyp ==
    \/ HypCall
    \/ RunTest
    \/ DailyAsset
    \/ MonthlyAsset
    \/ HypReturn

SpecHyp == InitHyp /\ [][NextHyp]_vars

----------------------------------------------------------------------------
(* evaluate_model *)

\* targets of the test set, and what a fitted model can predict for a row
Targets == {Num(1), Num(3)}
ModelOutputs == {NaN, Num(1), Num(2), Num(4)}

RECURSIVE Sum(_)
Sum(xs) == IF xs = <<>> THEN Num(0) ELSE Add(xs[1], Sum(Tail(xs)))

mean(xs) == Div(Sum(xs), Num(Len(xs)))

\* the squared differences of two arrays of the same length
sq_diff(a, b) == [k \in 1..Len(a) |-> Mul(Sub(a[k], b[k]), Sub(a[k], b[k]))]

\* sklearn's input validation: ValueError for an empty array or a non-finite entry
invalid(y, y_hat) ==
    \/ y = <<>>
    \/ \E k \in 1..Len(y) : ~IsFinite(y[k]) \/ ~IsFinite(y_hat[k])

\* mean_squared_error(y_test, y_pred)
mean_squared_error(y, y_hat) == mean(sq_diff(y, y_hat))

\* r2_score(y_test, y_pred): 1 - SS_res / SS_tot; nan for fewer than two samples;
\* for a constant y_test, 1.0 for a perfect prediction and 0.0 otherwise
r2_scoreAddsRatio(y, y_hat) ==
    Add(Num(1), Div(Sum(sq_diff(y, y_hat)), Sum(sq_diff(y, [k \in 1..Len(y) |-> mean(y)]))))

r2_score(y, y_hat) ==
    LET ss_res == Sum(sq_diff(y, y_hat))
        ss_tot == Sum(sq_diff(y, [k \in 1..Len(y) |-> mean(y)]))
    IN  IF Len(y) < 2 THEN NaN
        ELSE IF ss_tot = Num(0) THEN (IF ss_res = Num(0) THEN Num(1) ELSE Num(0))
        ELSE Sub(Num(1), Div(ss_res, ss_tot))

\* except Exception as e: logger.exception(...); raise
on_eval_error(v) == [v EXCEPT !.pc = "raised"]

\* the whole call: predict, both metrics, return the mapping; or log and re-raise
EvalCall ==
    /\ ev.pc = "idle"
    /\ LET y_pred1 == eval_in.model
           called == [ev EXCEPT !.before = eval_in]
       IN  \/ ev' = on_eval_error(called)
           \/ /\ invalid(eval_in.y_test, y_pred1)
              /\ ev' = on_eval_error(called)
           \/ /\ ~invalid(eval_in.y_test, y_pred1)
              /\ ev' = [called EXCEPT
                          !.pc = "returned",
                          !.result = <<[mse |-> mean_squared_error(eval_in.y_test, y_pred1),
                                        r2 |-> r2_score(eval_in.y_test, y_pred1)]>>]
    /\ UNCHANGED eval_in
    /\ UNCHANGED <<sim_vars, hold_vars, feat_vars, train_vars, main_vars, load_vars, hyp_vars, table_vars, pair_vars>>

InitEval ==
    /\ \E n \in 0..MaxTest :
          /\ eval_in \in [model : SeqsOfLen(ModelOutputs, n),
                          X_test : {[k \in 1..n |-> k]},
                          y_test : SeqsOfLen(Targets, n)]
    /\ NoEvalYet
    /\ NoLoadYet
    /\ NoTestData
    /\ NoTestYet
    /\ NoTables
    /\ EarlyIdle

NextEval == EvalCall

SpecEval == InitEval /\ [][NextEval]_vars

----------------------------------------------------------------------------
(* The price tables under prepare_features, the two mean-return tests and *)
(* calculate_avg_daily_returns                                             *)

\* the date index of a table, in row order; the loader sorts it, a caller need not
Orders == {<<>>, <<1>>, <<1, 2>>, <<2, 1>>, <<3, 1, 2>>}

PriceTable(index) == [columns |-> <<"close", "volume">>, index |-> index]

RECURSIVE InsertSorted(_, _)
InsertSorted(xs, x) ==
    IF xs = <<>> THEN <<x>>
    ELSE IF x < xs[1] THEN <<x>> \o xs
    ELSE <<xs[1]>> \o InsertSorted(Tail(xs), x)

RECURSIVE Sorted(_)
Sorted(xs) ==
    IF xs = <<>> THEN <<>>
    ELSE InsertSorted(Sorted(SubSeq(xs, 1, Len(xs) - 1)), xs[Len(xs)])

\* the name df is bound to: the caller's object ("input") or a new one ("private")
\* df.copy()
df_copy(t) == [obj |-> "private", table |-> t]

\* df.sort_index(): a new, sorted table
sort_indexInPlace(t) == [obj |-> "input", table |-> [t EXCEPT !.index = Sorted(@)]]

sort_index(t) == [obj |-> "private", table |-> [t EXCEPT !.index = Sorted(@)]]

\* df[name] = ...: a column added to the object df is bound to
add_column(b, name) == [b EXCEPT !.table.columns = Append(@, name)]

\* df.dropna(inplace=True) after `window` lag columns: the first rows go
drop_first(b, w) ==
    [b EXCEPT !.table.index = IF w >= Len(@) THEN <<>> ELSE SubSeq(@, w + 1, Len(@))]

RECURSIVE add_lags(_, _, _)
\* for i in range(1, window + 1): df[f'lag_{i}'] = ...
add_lags(b, i2, w) ==
    IF i2 > w THEN b ELSE add_lags(add_column(b, "lag_" \o ToString(i2)), i2 + 1, w)

\* what the caller's table is after the function worked on binding b
after(t, b) == IF b.obj = "input" THEN b.table ELSE t

\* the body of prepare_features on table t
features_body(t, w) == drop_first(add_lags(df_copy(t), 1, w), w)

\* one loop iteration of perform_mean_return_test on table t
daily_body(t) == add_column(sort_index(t), "returns")

\* one loop iteration of perform_mean_return_monthly_test on table t
monthly_body(t) == add_column(add_column(sort_index(t), "date"), "month")

\* the caller's tables and the callee's tables after a function ran body on each
ranOn(name, bodies) ==
    /\ price_tables' = [c \in 1..Len(price_tables) |->
                           IF c \in DOMAIN bodies THEN after(price_tables[c], bodies[c])
                           ELSE price_tables[c]]
    /\ tcall' = [tcall EXCEPT !.n = @ + 1, !.last = name,
                              !.private = [c \in DOMAIN bodies |-> bodies[c].table]]

TablePrepareFeatures ==
    /\ tcall.n < MaxTableCalls
    /\ \E c \in 1..Len(price_tables), w \in 1..MaxWindow :
          ranOn("prepare_features", c :> features_body(price_tables[c], w))
    /\ UNCHANGED <<sim_vars, hold_vars, feat_vars, train_vars, main_vars, load_vars, hyp_vars, eval_vars, pair_vars>>

TableDailyTest ==
    /\ tcall.n < MaxTableCalls
    /\ ranOn("perform_mean_return_test",
             [c \in 1..Len(price_tables) |-> daily_body(price_tables[c])])
    /\ UNCHANGED <<sim_vars, hold_vars, feat_vars, train_vars, main_vars, load_vars, hyp_vars, eval_vars, pair_vars>>

TableMonthlyTest ==
    /\ tcall.n < MaxTableCalls
    /\ ranOn("perform_mean_return_monthly_test",
             [c \in 1..Len(price_tables) |-> monthly_body(price_tables[c])])
    /\ UNCHANGED <<sim_vars, hold_vars, feat_vars, train_vars, main_vars, load_vars, hyp_vars, eval_vars, pair_vars>>

\* calculate_avg_daily_returns only reads df['close']; it builds returns_df
TableAvgReturns ==
    /\ tcall.n < MaxTableCalls
    /\ price_tables' = price_tables
    /\ tcall' = [tcall EXCEPT
                    !.n = @ + 1, !.last = "calculate_avg_daily_returns",
                    !.private = <<[columns |-> [c \in 1..Len(price_tables) |-> cryptos[c]],
                                   index |-> <<>>]>>]
    /\ UNCHANGED <<sim_vars, hold_vars, feat_vars, train_vars, main_vars, load_vars, hyp_vars, eval_vars, pair_vars>>

InitTables ==
    /\ \E a \in 1..MaxAssets : price_tables \in SeqsOfLen({PriceTable(o) : o \in Orders}, a)
    /\ tcall = [n |-> 0, last |-> "", private |-> <<>>, original |-> price_tables]
    /\ NoLoadYet
    /\ NoTestData
    /\ NoTestYet
    /\ NoEvalData
    /\ NoEvalYet
    /\ EarlyIdle

NextTables ==
    \/ TablePrepareFeatures
    \/ TableDailyTest
    \/ TableMonthlyTest
    \/ TableAvgReturns

SpecTables == InitTables /\ [][NextTables]_vars

----------------------------------------------------------------------------
(* Both simulations called twice, the second time with another y_pred *)

PairPrices == {NaN, Num(2), Num(3)}
PairPredictions == {NaN, Num(4)}
OtherPredictions == {NaN, Num(1), Num(4), Num(5)}
ExtraPredictions == {Num(5)}

\* the entry signal of step k (0-based) under predictions p
signal(p, k) == Gt(p[k + 2], y_true[k + 1])

\* p and q give the same entry signal at every step
SameSignals(p, q) == \A k \in 0..(Len(y_true) - 2) : signal(p, k) <=> signal(q, k)

\* the caller runs both functions again with a prediction array that gives the
\* same signals; it may differ anywhere, at index 0 too, and may be longer
CallWithOtherPredictions ==
    /\ pc = "done"
    /\ first_pred = <<>>
    /\ \E q \in SeqsOfLen(OtherPredictions, Len(y_true)) :
          /\ SameSignals(y_pred, q)
          /\ \/ y_pred' = q
             \/ \E x \in ExtraPredictions : y_pred' = Append(q, x)
    /\ first_pred' = <<y_pred>>
    /\ pc' = "idle"
    /\ UNCHANGED <<y_true, initial_balance, i, balance, prev_balance,
                   profit_outcomes, sbalance, balances, series_outcomes,
                   profit_results, series_results, logged>>
    /\ UNCHANGED <<hold_vars, feat_vars, train_vars, main_vars, load_vars, hyp_vars, eval_vars, table_vars>>

InitPair ==
    /\ \E n \in 0..MaxLen :
          /\ y_true \in SeqsOfLen(PairPrices, n)
          /\ y_pred \in PredSeqsOfLen(PairPredictions, n)
    /\ initial_balance = Num(1000)
    /\ NoCallYet
    /\ OthersIdle

NextPair ==
    \/ CallProfit
    \/ ProfitStep
    \/ ProfitReturn
    \/ CallSeries
    \/ SeriesStep
    \/ SeriesReturn
    \/ CallWithOtherPredictions

SpecPair == InitPair /\ [][NextPair]_vars

----------------------------------------------------------------------------
(* Vocabulary of the properties *)

Zero == Num(0)

\* an iteration of the active call has just run; its loop index was i - 1
InStep == pc \in {"profit", "series"} /\ i > 0

\* `balance` of the active call
Cur == IF pc = "profit" THEN balance ELSE sbalance

\* the branch the last iteration of the active call took
LastOutcome ==
    IF pc = "profit" THEN Last(profit_outcomes) ELSE Last(series_outcomes)

Range(s) == {s[k] : k \in 1..Len(s)}

\* a == b on floats: never true of NaN
Eq(a, b) == ~isnan(a) /\ ~isnan(b) /\ a = b

AnyNaN(k) ==
    isnan(today_real(k)) \/ isnan(tomorrow_real(k)) \/ isnan(tomorrow_pred(k))

AtOrBelowFloor(k) ==
    Le(today_real(k), min_price) \/ Le(tomorrow_real(k), min_price)

\* true[i] == true[i+1] for all i
ConstantPrices == \A k \in 1..(Len(y_true) - 1) : Eq(y_true[k], y_true[k + 1])

\* true[i] < true[i+1] for all i
StrictlyIncreasing == \A k \in 1..(Len(y_true) - 1) : Lt(y_true[k], y_true[k + 1])

\* predicted[i+1] > true[i] for all i
PredictionsAbove == \A k \in 1..(Len(y_true) - 1) : Gt(y_pred[k + 1], y_true[k])

----------------------------------------------------------------------------
(* C1: once both functions have returned, simulate_profit_series took the  *)
(* same branch as simulate_profit at every iteration, the last entry of    *)
(* the trajectory equals simulate_profit's balance before rounding, and    *)
(* its 2-decimal rounding equals the value simulate_profit returned.       *)
C1_ModesAgree ==
    /\ pc \in {"series", "done"} =>
          \A k \in 1..Len(series_outcomes) : series_outcomes[k] = profit_outcomes[k]
    /\ pc = "done" =>
          /\ Len(series_outcomes) = Len(profit_outcomes)
          /\ Last(Last(series_results)) = balance
          /\ round2(Last(Last(series_results))) = Last(profit_results)

C1_Witness ==
    /\ pc = "done"
    /\ "trade" \in Range(profit_outcomes)
    /\ "reject" \in Range(profit_outcomes)
    /\ balance # initial_balance
    /\ round2(balance) # balance

(* C2: in both modes an iteration with predicted[i+1] <= true[i] leaves    *)
(* the balance as it was before the iteration.                             *)
C2_NoSignalNoChange ==
    (InStep /\ Le(tomorrow_pred(i - 1), today_real(i - 1))) => Cur = prev_balance

C2_Witness ==
    /\ pc = "series"
    /\ i > 0
    /\ Last(series_outcomes) = "hold"
    /\ profit_outcomes[i] = "hold"
    /\ Eq(tomorrow_pred(i - 1), today_real(i - 1))
    /\ change(i - 1) # Num(1)
    /\ sbalance # Zero

(* C3: in both modes an iteration whose real price ratio exceeds 10 leaves *)
(* the balance unchanged, and every iteration either leaves the balance    *)
(* unchanged or multiplies it by a ratio that is at most 10.               *)
C3_AnomalyNeverCompounded ==
    InStep =>
        /\ Gt(change(i - 1), max_change) => Cur = prev_balance
        /\ \/ Cur = prev_balance
           \/ /\ Cur = Mul(prev_balance, change(i - 1))
              /\ Le(change(i - 1), max_change)

C3_Witness ==
    /\ pc = "series"
    /\ i > 0
    /\ Last(series_outcomes) = "reject"
    /\ profit_outcomes[i] = "reject"
    /\ Gt(tomorrow_pred(i - 1), today_real(i - 1))
    /\ sbalance # Zero

(* C4: in both modes an iteration in which one of the three values is NaN, *)
(* or today's or tomorrow's real price is at or below the floor 1.0, takes *)
(* a sanity-skip branch (it never reaches the comparison of the prediction *)
(* with today's price) and carries the balance over unchanged.             *)
C4_SanitySkip ==
    (InStep /\ (AnyNaN(i - 1) \/ AtOrBelowFloor(i - 1))) =>
        /\ LastOutcome \in {"nan_skip", "floor_skip"}
        /\ Cur = prev_balance

C4_Witness ==
    /\ pc = "series"
    /\ i > 0
    /\ today_real(i - 1) = min_price
    /\ Gt(tomorrow_real(i - 1), min_price)
    /\ Gt(tomorrow_pred(i - 1), today_real(i - 1))
    /\ Last(series_outcomes) = "floor_skip"
    /\ profit_outcomes[i] = "floor_skip"
    /\ sbalance # Zero

\* the conditions of C5 on iteration k
TradeConditions(k) ==
    /\ ~AnyNaN(k)
    /\ Gt(today_real(k), min_price)
    /\ Gt(tomorrow_real(k), min_price)
    /\ Gt(tomorrow_pred(k), today_real(k))
    /\ Le(change(k), max_change)

(* C5 as stated: in an iteration that meets the trade conditions the       *)
(* balance is multiplied by true[i+1] / true[i], and it falls exactly when *)
(* true[i+1] < true[i].                                                    *)
C5_Original ==
    (InStep /\ TradeConditions(i - 1)) =>
        /\ Cur = Mul(prev_balance, change(i - 1))
        /\ Lt(Cur, prev_balance) <=> Lt(tomorrow_real(i - 1), today_real(i - 1))

(* C5 amended: in an iteration that meets the trade conditions the balance *)
(* is multiplied by true[i+1] / true[i]; a positive balance falls exactly  *)
(* when true[i+1] < true[i], and a zero balance stays zero.                *)
C5_TradeMultiplies ==
    (InStep /\ TradeConditions(i - 1)) =>
        /\ LastOutcome = "trade"
        /\ Cur = Mul(prev_balance, change(i - 1))
        /\ Gt(prev_balance, Zero) =>
              (Lt(Cur, prev_balance) <=> Lt(tomorrow_real(i - 1), today_real(i - 1)))
        /\ prev_balance = Zero => Cur = Zero

C5_Witness ==
    /\ pc = "profit"
    /\ i > 0
    /\ TradeConditions(i - 1)
    /\ Gt(prev_balance, Zero)
    /\ Lt(tomorrow_real(i - 1), today_real(i - 1))
    /\ Lt(balance, prev_balance)

(* C6 as stated: on a constant true price series (of at least two points)  *)
(* simulate_profit returns a final balance equal to the initial balance.   *)
C6_Original ==
    (ConstantPrices /\ Len(y_true) >= 2 /\ profit_results # <<>>) =>
        Last(profit_results) = initial_balance

(* C6 amended: on a constant true price series the balance equals the      *)
(* initial balance after every iteration of both modes, every entry of the *)
(* trajectory equals the initial balance, and simulate_profit returns the  *)
(* initial balance rounded to 2 decimals.                                  *)
C6_ConstantPrices ==
    ConstantPrices =>
        /\ pc # "idle" => balance = initial_balance
        /\ pc \in {"series", "done"} =>
              /\ sbalance = initial_balance
              /\ \A k \in 1..Len(balances) : balances[k] = initial_balance
        /\ profit_results # <<>> =>
              Last(profit_results) = round2(initial_balance)

C6_Witness ==
    /\ ConstantPrices
    /\ pc = "done"
    /\ Len(y_true) >= 3
    /\ \A k \in 1..Len(profit_outcomes) : profit_outcomes[k] = "trade"
    /\ round2(initial_balance) # initial_balance
    /\ Last(profit_results) # initial_balance

(* C7 as stated: for a strictly increasing true price sequence (of at      *)
(* least two points), predictions with every predicted[i+1] > true[i] and  *)
(* a positive initial balance, simulate_profit returns a value strictly    *)
(* greater than the initial balance.                                       *)
C7_Original ==
    (/\ StrictlyIncreasing
     /\ PredictionsAbove
     /\ Len(y_true) >= 2
     /\ Gt(initial_balance, Zero)
     /\ profit_results # <<>>) =>
        Gt(Last(profit_results), initial_balance)

\* every price is above the floor and no day-to-day ratio exceeds 10
TradablePrices ==
    /\ \A k \in 1..Len(y_true) : Gt(y_true[k], min_price)
    /\ \A k \in 1..(Len(y_true) - 1) : Le(Div(y_true[k + 1], y_true[k]), max_change)

(* C7 amended: for a strictly increasing true price sequence of at least   *)
(* two points, all above the floor 1.0 and with no day-to-day ratio above  *)
(* 10, predictions with every predicted[i+1] > true[i] and a positive      *)
(* initial balance, every iteration of simulate_profit trades, the balance *)
(* before rounding is strictly greater than the initial balance, and the   *)
(* returned value is not below the initial balance rounded to 2 decimals.  *)
C7_UpwardTrendProfits ==
    (/\ StrictlyIncreasing
     /\ PredictionsAbove
     /\ Len(y_true) >= 2
     /\ TradablePrices
     /\ Gt(initial_balance, Zero)) =>
        /\ pc = "profit" =>
              /\ \A k \in 1..Len(profit_outcomes) : profit_outcomes[k] = "trade"
              /\ i > 0 => Gt(balance, prev_balance)
        /\ profit_results # <<>> =>
              /\ Gt(balance, initial_balance)
              /\ Last(profit_results) = round2(balance)
              /\ ~Lt(Last(profit_results), round2(initial_balance))

C7_Witness ==
    /\ StrictlyIncreasing
    /\ PredictionsAbove
    /\ TradablePrices
    /\ Len(y_true) >= 3
    /\ Gt(initial_balance, Zero)
    /\ profit_results # <<>>
    /\ Gt(Last(profit_results), initial_balance)

(* C8: for an initial balance >= 0 the balance is >= 0 after every         *)
(* iteration of both modes, and so are the value simulate_profit returns   *)
(* and every entry of the trajectory.                                      *)
C8_BalanceNeverNegative ==
    Le(Zero, initial_balance) =>
        /\ pc # "idle" => Le(Zero, balance)
        /\ pc \in {"series", "done"} =>
              \A k \in 1..Len(balances) : Le(Zero, balances[k])
        /\ \A r \in 1..Len(profit_results) : Le(Zero, profit_results[r])

C8_Witness ==
    /\ pc = "done"
    /\ Gt(initial_balance, Zero)
    /\ \E k \in 1..Len(y_true) : Lt(y_true[k], Zero)
    /\ "trade" \in Range(profit_outcomes)
    /\ Lt(Last(profit_results), initial_balance)

(* C9: the trajectory starts with the initial balance, gets exactly one    *)
(* entry per iteration whichever branch the iteration took, each entry is  *)
(* the balance after its iteration, and for a non-empty y_true the         *)
(* returned list has len(y_true) entries.                                  *)
C9_OneEntryPerStep ==
    /\ pc = "series" =>
          /\ Len(balances) = i + 1
          /\ balances[1] = initial_balance
          /\ Last(balances) = sbalance
          /\ \A k \in 1..i : balances[k + 1] = SeriesBalance(balances[k], k - 1)
    /\ \A r \in 1..Len(series_results) :
          /\ series_results[r][1] = initial_balance
          /\ Len(y_true) >= 1 => Len(series_results[r]) = Len(y_true)

C9_Witness ==
    /\ pc = "done"
    /\ Len(y_true) >= 3
    /\ Len(Last(series_results)) = Len(y_true)
    /\ "reject" \in Range(series_outcomes)
    /\ Range(series_outcomes) \cap {"nan_skip", "floor_skip", "hold"} # {}

(* C10: every call of simulate_profit on the same arguments returns the    *)
(* same value, and every call of simulate_profit_series returns the same   *)
(* list, whatever earlier calls left behind.                               *)
C10_Deterministic ==
    /\ \A a, b \in 1..Len(profit_results) : profit_results[a] = profit_results[b]
    /\ \A a, b \in 1..Len(series_results) : series_results[a] = series_results[b]

C10_Witness ==
    /\ pc = "done"
    /\ Len(profit_results) >= 2
    /\ Len(series_results) >= 2
    /\ logged > 0
    /\ Last(profit_results) # round2(initial_balance)

(* C11: for at least 2 prices simulate_hold_strategy returns one entry per *)
(* price, entry i being (initial_balance / price[0]) * price[i] whatever   *)
(* the prices are (no floor, NaN or anomaly rule); for fewer than 2 prices *)
(* it returns the single entry initial_balance.                            *)
C11_BuyAndHold ==
    hold_result # <<>> =>
        LET t == hold_result[1]
        IN  /\ Len(y_true) >= 2 =>
                  /\ Len(t) = Len(y_true)
                  /\ \A k \in 1..Len(y_true) :
                        t[k] = Mul(Div(initial_balance, y_true[1]), y_true[k])
            /\ Len(y_true) < 2 => t = <<initial_balance>>

C11_Witness ==
    /\ hold_result # <<>>
    /\ Len(y_true) >= 3
    /\ Gt(y_true[1], min_price)
    /\ Gt(initial_balance, Zero)
    /\ \E k \in 2..Len(y_true) :
          /\ Lt(y_true[k], Zero)
          /\ Lt(hold_result[1][k], Zero)
    /\ \E k \in 2..Len(y_true) :
          /\ Gt(Div(y_true[k], y_true[k - 1]), max_change)
          /\ Gt(hold_result[1][k], Mul(initial_balance, max_change))

\* the table has no missing cell
CompleteTable == \A r \in 1..Len(df) : ~isnan(df[r][1]) /\ ~isnan(df[r][2])

\* row r of the table can be a target: it has no missing cell and the window
\* closes before it exist and are not missing
UsableRow(r) ==
    /\ r > window
    /\ ~isnan(df[r][1])
    /\ ~isnan(df[r][2])
    /\ \A m \in 1..window : ~isnan(df[r - m][1])

RECURSIVE UsableRowsFrom(_)
\* the usable rows among r..Len(df), in table order
UsableRowsFrom(r) ==
    IF r > Len(df) THEN <<>>
    ELSE IF UsableRow(r) THEN <<r>> \o UsableRowsFrom(r + 1)
    ELSE UsableRowsFrom(r + 1)

FeaturesReturned == fpc = "returned" /\ feat_result # <<>>

(* C12 as stated: for every table of L > window rows prepare_features      *)
(* returns exactly L - window feature rows and as many targets.            *)
C12_Original ==
    (FeaturesReturned /\ Len(df) > window) =>
        /\ Len(feat_result[1].X) = Len(df) - window
        /\ Len(feat_result[1].y) = Len(df) - window

(* C12 amended: prepare_features returns one feature row per table row     *)
(* that has no missing cell and whose window preceding closes exist and    *)
(* are not missing, in table order, paired 1:1 with the targets; the row   *)
(* of target position r holds the closes at r-1 ... r-window (most recent  *)
(* first), no returned value is missing, and for a table without missing   *)
(* cells and L > window rows there are exactly L - window rows, row j      *)
(* having its target at position window + j.                               *)
C12_FeatureWindows ==
    FeaturesReturned =>
        LET X == feat_result[1].X
            y == feat_result[1].y
            rows == UsableRowsFrom(1)
        IN  /\ Len(X) = Len(rows)
            /\ Len(y) = Len(rows)
            /\ \A j \in 1..Len(rows) :
                  /\ y[j] = df[rows[j]][1]
                  /\ Len(X[j]) = window
                  /\ \A m \in 1..window : X[j][m] = df[rows[j] - m][1]
                  /\ ~isnan(y[j])
                  /\ \A m \in 1..window : ~isnan(X[j][m])
            /\ (CompleteTable /\ Len(df) > window) =>
                  /\ Len(X) = Len(df) - window
                  /\ \A j \in 1..Len(X) : rows[j] = window + j

C12_Witness ==
    /\ FeaturesReturned
    /\ CompleteTable
    /\ window >= 2
    /\ Len(df) >= window + 2
    /\ Len(feat_result[1].X) = Len(df) - window
    /\ feat_result[1].X[1][1] # feat_result[1].X[1][window]
    /\ feat_result[1].y[1] # feat_result[1].X[1][1]

(* C13: when window >= number of table rows prepare_features returns an    *)
(* empty feature matrix and an empty target vector.                        *)
C13_WindowTooLarge ==
    (fpc \in {"extract", "returned"} /\ window >= Len(df)) =>
        /\ work = <<>>
        /\ fpc = "returned" =>
              /\ feat_result # <<>>
              /\ feat_result[1].X = <<>>
              /\ feat_result[1].y = <<>>

C13_Witness ==
    /\ FeaturesReturned
    /\ CompleteTable
    /\ Len(df) >= 2
    /\ window >= Len(df)
    /\ feat_result[1].X = <<>>

TrainDone == tpc = "done" /\ mlp_result # <<>>

(* C14: with 2 <= k <= N and no exception, the k validation folds are      *)
(* pairwise disjoint and cover every sample, each candidate is trained on  *)
(* exactly the samples outside its fold and scored on its fold, and the    *)
(* returned candidate has the lowest validation error of the k.            *)
C14_CrossValidation ==
    (TrainDone /\ ~caught /\ 2 <= n_splits /\ n_splits <= n_samples) =>
        /\ Len(candidates) = n_splits
        /\ \A a, b \in 1..Len(candidates) :
              a # b => candidates[a].scored_on \cap candidates[b].scored_on = {}
        /\ UNION {candidates[a].scored_on : a \in 1..Len(candidates)} = 1..n_samples
        /\ \A a \in 1..Len(candidates) :
              /\ candidates[a].scored_on # {}
              /\ candidates[a].trained_on = (1..n_samples) \ candidates[a].scored_on
        /\ mlp_result[1] # None
        /\ mlp_result[1][1] \in 1..Len(candidates)
        /\ \A a \in 1..Len(candidates) :
              Le(candidates[mlp_result[1][1]].mse, candidates[a].mse)

C14_Witness ==
    /\ TrainDone
    /\ ~caught
    /\ n_splits = 3
    /\ n_samples = 4
    /\ mlp_result[1] = <<2>>
    /\ candidates[3].mse = Num(2)
    /\ candidates[1].mse = Num(1)

(* C15: the returned model was never trained on zero samples, and for      *)
(* k > N the request is rejected: no model is fitted and None is returned. *)
C15_NoEmptyTraining ==
    /\ \A a \in 1..Len(candidates) : candidates[a].trained_on # {}
    /\ TrainDone =>
          /\ mlp_result[1] # None =>
                /\ mlp_result[1][1] \in 1..Len(candidates)
                /\ candidates[mlp_result[1][1]].trained_on # {}
          /\ n_splits > n_samples => (mlp_result[1] = None /\ candidates = <<>>)

C15_Witness ==
    /\ TrainDone
    /\ n_splits = 2
    /\ n_samples = 0
    /\ mlp_result[1] = None

(* C16: when training raises in any fold, train_mlp_model catches the      *)
(* exception and returns None, also when an earlier fold had succeeded.    *)
C16_FailureReturnsNone ==
    (TrainDone /\ caught) => mlp_result[1] = None

C16_Witness ==
    /\ TrainDone
    /\ caught
    /\ best_model # None
    /\ Len(candidates) >= 1
    /\ mlp_result[1] = None

\* run_comparison has been entered
ComparisonStarted == mpc \in RcStages \/ rc # NoComparison

(* C17: when train_mlp_model returned None, neither run_prediction nor     *)
(* run_comparison attempts a prediction, evaluation or simulation with it. *)
C17_CallersCheckNone ==
    /\ rp.model = None => rp.used = <<>>
    /\ rc.mlp = None => rc.attempted = <<>>

(* C18: no exception raised in a stage of a command escapes main(): the    *)
(* process never ends with a traceback.                                    *)
C18_NoExceptionEscapes ==
    mpc # "crashed" /\ traceback = ""

(* C19: once run_comparison has split the feature rows, the held-out rows  *)
(* are exactly the last 30 in order and the training rows are the rows     *)
(* before them; every fitted model was trained on the training rows, and a *)
(* finished run simulated every model's predictions once on the held-out   *)
(* rows.                                                                   *)
C19_HoldOutLast30 ==
    /\ (rc.X_test # <<>> \/ rc.X_train # <<>> \/ rc.mlp # Unset) =>
          /\ Len(rc.X_test) = TailSize
          /\ \A j \in 1..Len(rc.X_test) : rc.X_test[j] = n_rows - TailSize + j
          /\ rc.X_train = [j \in 1..(n_rows - TailSize) |-> j]
          /\ Range(rc.X_train) \cap Range(rc.X_test) = {}
          /\ rc.X_train # <<>>
    /\ \A m \in 1..Len(rc.fitted) : rc.fitted[m].trained_on = rc.X_train
    /\ (mpc = "exit" /\ ComparisonStarted) =>
          /\ [m \in 1..Len(rc.saldos) |-> rc.saldos[m].nome] = ModelNames
          /\ \A m \in 1..Len(rc.saldos) :
                rc.saldos[m].y_true = rc.X_test /\ rc.saldos[m].y_pred = rc.X_test

(* C20: the records run_comparison emits are in ascending order of MSE,    *)
(* and the model compared with the MLP is a non-MLP model of lowest MSE.   *)
C20_RankedRecords ==
    (mpc = "exit" /\ rc.melhor # <<>>) =>
        /\ \A a, b \in 1..Len(rc.printed) :
              a < b => Le(rc.printed[a][2], rc.printed[b][2])
        /\ rc.melhor[1] # "MLP"
        /\ \A a \in 1..Len(rc.printed) :
              rc.printed[a][1] # "MLP" => Le(rc.melhor[2], rc.printed[a][2])

(* C21: with at most 30 feature rows run_comparison calls no trainer on    *)
(* the empty training set and does not end in a numerical-library error;   *)
(* it ends with a defined insufficient-data condition.                     *)
C21_InsufficientData ==
    (n_rows <= TailSize /\ dados_has_crypto) =>
        /\ rc.mlp = Unset
        /\ rc.fitted = <<>>
        /\ traceback \notin {"ValueError", "AttributeError"}

\* run_prediction has returned: asset not found, no model, exception caught,
\* or completed
PredictionReturned ==
    /\ args.func = "run_predict"
    /\ mpc \notin RpStages \cup {"main"}

\* run_comparison has been entered (it may have ended since)
ComparisonEntered == mpc \in RcStages \/ traceback # "" \/ rc # NoComparison

(* C29: with --compare, run_comparison is entered only after               *)
(* run_prediction has returned, and it is entered whatever run_prediction  *)
(* did: asset not found, no model, exception caught, or completed.         *)
C29_CompareAfterPrediction ==
    /\ (args.func = "run_predict" /\ ComparisonEntered) =>
          (args.compare /\ PredictionReturned)
    /\ (args.func = "run_predict" /\ args.compare /\ PredictionReturned) =>
          ComparisonEntered
    /\ mpc = "rc_load" =>
          \/ rp.used # <<>>
          \/ rp.model = None
          \/ stdout # <<>>

C29_Witness ==
    /\ args.compare
    /\ ~dados_has_crypto
    /\ stdout = <<"Erro: Criptomoeda nao disponivel.">>
    /\ rp = NoPrediction
    /\ traceback = "KeyError"

\* the coins whose read failed so far
FailedCoins == {ld.errors[k][1] : k \in 1..Len(ld.errors)}

(* C22: load_all_cryptos never raises; a coin whose file is missing or     *)
(* unparsable is left out and the loop goes on, so the keys of the result  *)
(* are whitelisted symbols, each at most once, and exactly the coins whose *)
(* read succeeded; when every read fails the result is empty.              *)
C22_LoaderSkipsFailures ==
    /\ ld.pc # "raised"
    /\ Range(ld.data) \subseteq Range(cryptos)
    /\ \A a, b \in 1..Len(ld.data) : ld.data[a] = ld.data[b] => a = b
    /\ Range(ld.data) \cap FailedCoins = {}
    /\ ld.pc = "loading" =>
          Range(ld.data) \cup FailedCoins = {cryptos[k] : k \in 1..(ld.coin - 1)}
    /\ ld.pc = "returned" =>
          /\ Range(ld.data) = Range(cryptos) \ FailedCoins
          /\ Len(ld.errors) = Len(cryptos) => ld.data = <<>>

C22_Witness ==
    /\ ld.pc = "returned"
    /\ ld.errors = <<<<"ADA", "missing">>, <<"BTC", "unparsable">>>>
    /\ Len(ld.data) = 8

\* the monthly test runs or has run
MonthlyTest == hyp_args.test \in {"monthly", "run_test"} /\ ht.pc # "idle"

\* the assets whose iteration has ended
Processed == 1..Len(ht.calls)

(* C23: in the monthly test an asset with fewer than 3 monthly returns     *)
(* (after taking the last 6) gets (nan, nan, nan, False); unless the       *)
(* iteration raised before, neither the normality test nor the t statistic *)
(* is computed for it, and the loop goes on to return normally.            *)
C23_InsufficientMonths ==
    MonthlyTest =>
        \A k \in Processed :
            data[k].n_returns < MinObservations =>
                /\ Len(ht.results) >= k
                /\ ht.results[k].coin = data[k].coin
                /\ ht.results[k].res = undefined_result
                /\ ~ht.calls[k].shapiro
                /\ ~ht.calls[k].t

C23_Witness ==
    /\ MonthlyTest
    /\ ht.pc = "returned"
    /\ Len(data) = 2
    /\ data[1].n_returns = 2
    /\ ~ht.calls[1].raised
    /\ ht.results[1].res = undefined_result
    /\ ht.calls[2].t

(* C24: in both tests, when Shapiro's p is below alpha the t statistic is  *)
(* not computed, t and p are recorded as nan and H0 is not rejected; H0 is *)
(* rejected only when normality passed (p >= alpha) and the left-tail      *)
(* p-value is below alpha.                                                 *)
C24_NormalityGate ==
    \A k \in 1..Len(ht.results) :
        LET res == ht.results[k].res
            called == ht.calls[k]
        IN  /\ (called.shapiro /\ Lt(called.shapiro_p, alpha)) =>
                  /\ ~called.t
                  /\ isnan(res[2])
                  /\ isnan(res[3])
                  /\ res[4] = FALSE
            /\ res[4] = TRUE =>
                  /\ called.shapiro
                  /\ Ge(called.shapiro_p, alpha)
                  /\ called.t
                  /\ Lt(res[3], alpha)

C24_Witness ==
    /\ ht.pc = "returned"
    /\ hyp_args.test = "daily"
    /\ Len(ht.results) = 2
    /\ ht.calls[1].shapiro_p = Frac(1, 100)
    /\ ht.results[1].res[4] = FALSE
    /\ ht.calls[2].shapiro_p = alpha
    /\ ht.results[2].res[4] = TRUE

(* C25: both tests record exactly one result per input asset, in input     *)
(* order and under the asset's key, also for an asset whose computation    *)
(* raised, which gets (nan, nan, nan, False); the returned mapping has the *)
(* keys of the input and is empty for empty input.                         *)
C25_OneResultPerAsset ==
    /\ Len(ht.results) = Len(ht.calls)
    /\ \A k \in 1..Len(ht.results) : ht.results[k].coin = data[k].coin
    /\ \A k \in Processed :
          ht.calls[k].raised => (Len(ht.results) >= k /\ ht.results[k].res = undefined_result)
    /\ ht.pc \in {"daily", "monthly"} => Len(ht.calls) = ht.coin - 1
    /\ ht.pc = "returned" =>
          /\ Len(ht.results) = Len(data)
          /\ data = <<>> => ht.results = <<>>

C25_Witness ==
    /\ ht.pc = "returned"
    /\ Len(data) = 2
    /\ ht.calls[1].raised
    /\ ht.calls[1].shapiro
    /\ ht.results[2].res[4] = TRUE

(* C30: the percentage run_test prints for the threshold is the percentage *)
(* the monthly t statistic is computed against.                            *)
C30_SameThreshold ==
    ht.reported # <<>> => ht.reported[1] = ht.threshold_percent

\* a test set of at least two rows whose targets are not all equal
NonDegenerate ==
    /\ Len(eval_in.y_test) >= 2
    /\ \E a, b \in 1..Len(eval_in.y_test) : eval_in.y_test[a] # eval_in.y_test[b]

(* C26: evaluate_model returns a mapping with exactly the keys mse and r2, *)
(* with mse >= 0 and, for a non-degenerate test set, r2 <= 1; it leaves    *)
(* the model and its inputs as they were; a failure of the evaluation is   *)
(* re-raised and gives no result.                                          *)
C26_EvaluateModel ==
    /\ ev.pc # "idle" => eval_in = ev.before
    /\ ev.pc = "returned" =>
          /\ Len(ev.result) = 1
          /\ DOMAIN ev.result[1] = {"mse", "r2"}
          /\ Le(Num(0), ev.result[1].mse)
          /\ NonDegenerate => Le(ev.result[1].r2, Num(1))
          /\ ~invalid(eval_in.y_test, eval_in.model)
    /\ ev.pc = "raised" => ev.result = <<>>
    /\ (ev.pc # "idle" /\ invalid(eval_in.y_test, eval_in.model)) => ev.pc = "raised"

C26_Witness ==
    /\ ev.pc = "returned"
    /\ NonDegenerate
    /\ Len(eval_in.y_test) = 3
    /\ Lt(ev.result[1].r2, Num(0))
    /\ Gt(ev.result[1].mse, Num(1))

(* C27: after any sequence of calls of prepare_features, the two          *)
(* mean-return tests and calculate_avg_daily_returns, every table the      *)
(* caller passed in has the columns, the rows and the row order it had     *)
(* before; the added columns exist only in the callee's tables.            *)
C27_TablesReadOnly ==
    /\ price_tables = tcall.original
    /\ \A c \in 1..Len(price_tables) : price_tables[c].columns = <<"close", "volume">>

C27_Witness ==
    /\ tcall.n = 2
    /\ tcall.last = "perform_mean_return_monthly_test"
    /\ price_tables[1].index = <<2, 1>>
    /\ tcall.private[1].index = <<1, 2>>
    /\ tcall.private[1].columns = <<"close", "volume", "date", "month">>

(* C28: two prediction arrays that give the same entry signal             *)
(* predicted[i+1] > true[i] at every step give the same simulate_profit    *)
(* value and the same simulate_profit_series list, whatever else differs:  *)
(* other values, predicted[0], entries beyond len(true).                   *)
C28_OnlySignalsMatter ==
    (first_pred # <<>> /\ SameSignals(first_pred[1], y_pred)) =>
        /\ Len(profit_results) = 2 => profit_results[1] = profit_results[2]
        /\ Len(series_results) = 2 => series_results[1] = series_results[2]
        /\ pc \in {"series", "done"} =>
              \A k \in 1..Len(balances) : balances[k] = series_results[1][k]

C28_Witness ==
    /\ Len(series_results) = 2
    /\ Len(y_true) = 3
    /\ Len(y_pred) = 4
    /\ y_pred[1] # first_pred[1][1]
    /\ y_pred[2] = Num(5)
    /\ first_pred[1][2] = Num(4)
    /\ y_pred[3] = Num(1)
    /\ first_pred[1][3] = NaN
    /\ "trade" \in Range(profit_outcomes)
    /\ profit_results[2] # initial_balance

====
